---- MODULE Spec2Model ----
(***************************************************************************)
(* Intel RTM intrinsics of crates/core_arch/src/x86/rtm.rs: the wrappers   *)
(* _xbegin, _xend, _xabort, _xtest, the decoder _xabort_code, the status   *)
(* constants, and the three test programs of the file, run against a       *)
(* two-state (Idle/Active) transactional-memory machine.                   *)
(*                                                                         *)
(* Data representation.  TLC's integers are 32-bit signed, so a u32 cannot *)
(* be an integer.  A u32 is the set of its set bit positions (a subset of  *)
(* 0..31); an i32, i8 or u8 is an integer.  Casts between them are spelled *)
(* out (AsU32, AsU8, AsI8).                                                *)
(***************************************************************************)
EXTENDS Integers, FiniteSets

VARIABLES
    prog,             \* the caller program that runs in this behaviour
    pc,               \* the caller's position in it
    i,                \* loop counter of `for _ in 0..10`
    abort_code,       \* test_xabort's loop variable / the argument of _xabort
    code,             \* `let code = rtm::_xbegin()`: Some(u32) or None
    test_abort_code,  \* `let test_abort_code = rtm::_xabort_code(code)`
    in_tx,            \* `let in_tx = _xtest()`: Some(u8) or None
    active,           \* hardware: a transactional region is open
    mem,              \* memory as every execution context sees it
    wset,             \* hardware: the open region's buffered writes
    seen,             \* the other context: the last value it read
    ev,               \* the operation executed last
    ever_started      \* history: some _xbegin has returned _XBEGIN_STARTED

vars == <<prog, pc, i, abort_code, code, test_abort_code, in_tx,
          active, mem, wset, seen, ev, ever_started>>

\* An unset local is None, a set one Some(v).
None == << >>

Some(v) == <<v>>

(***************************************************************************)
(* 32-bit words                                                            *)
(***************************************************************************)
WordBits == 32

Bits == 0 .. (WordBits - 1)

\* The u32 with value n, for 0 <= n < 2^31.
FromNat(n) == {b \in 0 .. (WordBits - 2) : (n \div 2^b) % 2 = 1}

RECURSIVE SumBits(_)
SumBits(w) ==
    IF w = {} THEN 0
    ELSE LET b == CHOOSE c \in w : TRUE IN 2^b + SumBits(w \ {b})

\* The value of a u32 whose bit 31 is clear.
ToNat(w) == SumBits(w)

Shl(w, n) == {b + n : b \in w} \cap Bits

Shr(w, n) == {b - n : b \in {c \in w : c >= n}}

And(a, b) == a \cap b

Not(w) == Bits \ w

\* `as u32` of an i32: the two's-complement bit pattern.
AsU32(x) ==
    {b \in 0 .. (WordBits - 2) : (x \div 2^b) % 2 = 1}
        \cup (IF x < 0 THEN {WordBits - 1} ELSE {})

\* `as u8` of an i32: the low eight bits.
AsU8(x) == x % 256

\* An integer literal 0..255 where an i8 is expected: the same bit pattern.
AsI8(n) == IF n >= 128 THEN n - 256 ELSE n

(***************************************************************************)
(* The status constants                                                    *)
(***************************************************************************)
_XBEGIN_STARTED_zero == FromNat(0)

_XBEGIN_STARTED == Not(FromNat(0))

_XABORT_EXPLICIT == Shl(FromNat(1), 0)

_XABORT_RETRY == Shl(FromNat(1), 1)

_XABORT_CONFLICT == Shl(FromNat(1), 2)

_XABORT_CAPACITY == Shl(FromNat(1), 3)

_XABORT_DEBUG == Shl(FromNat(1), 4)

_XABORT_NESTED_bit6 == Shl(FromNat(1), 6)

_XABORT_NESTED == Shl(FromNat(1), 5)

AbortFlags ==
    {_XABORT_EXPLICIT, _XABORT_RETRY, _XABORT_CONFLICT,
     _XABORT_CAPACITY, _XABORT_DEBUG, _XABORT_NESTED}

\* (status >> 24) & 0x7F : the top bit of the code is lost.
_xabort_code_7bit(status) == And(Shr(status, 24), FromNat(127))

\* (status >> 16) & 0xFF : the wrong byte of the status.
_xabort_code_shr16(status) == And(Shr(status, 16), FromNat(255))

\* (status >> 24) & 0xFF
_xabort_code(status) == And(Shr(status, 24), FromNat(255))

(***************************************************************************)
(* The processor (the extern "C" intrinsics llvm.x86.xbegin, xend, xabort, *)
(* xtest).  Two states: Idle (active = FALSE) and Active.  A region's      *)
(* writes are buffered in wset and reach mem at commit.  The callers       *)
(* modelled here do not nest regions.                                      *)
(***************************************************************************)
MaxVal == 1

Addrs == {"x", "y"}

Vals == 0 .. MaxVal

\* wset maps the addresses written in the open region to their new values.
EmptyWset == [a \in {} |-> 0]

Load(a) == IF active /\ a \in DOMAIN wset THEN wset[a] ELSE mem[a]

Store(a, v) ==
    IF active
    THEN /\ wset' = [b \in DOMAIN wset \cup {a} |-> IF b = a THEN v ELSE wset[b]]
         /\ mem' = mem
    ELSE /\ mem' = [mem EXCEPT ![a] = v]
         /\ wset' = wset

Committed == [a \in Addrs |-> IF a \in DOMAIN wset THEN wset[a] ELSE mem[a]]

\* The bit of EAX each abort cause sets.
AbortCauseBit ==
    [EXPLICIT |-> 0, RETRY |-> 1, CONFLICT |-> 2,
     CAPACITY |-> 3, DEBUG |-> 4, NESTED |-> 5]

\* The flag sets of an abort the processor detects itself.
HwCauses == SUBSET {"RETRY", "CONFLICT", "CAPACITY", "DEBUG", "NESTED"}

\* The flags that may accompany EXPLICIT.  CONFLICT, CAPACITY and DEBUG name
\* other causes; SpecDecode covers the decoder under every flag subset.
ExplicitExtras == SUBSET {"RETRY", "NESTED"}

\* EAX after an abort, as the i32 the intrinsic returns: the causes' bits and
\* the XABORT immediate (an i8) in bits 24..31.
x86_abort_status(causes, imm8) ==
    imm8 * 2^24 + SumBits({AbortCauseBit[c] : c \in causes})

\* What llvm.x86.xbegin can return: -1 (region entered) or an abort status.
XbeginResults == {-1} \cup {x86_abort_status(cs, 0) : cs \in HwCauses}

\* Where an abort resumes: the return of the program's _xbegin call.
CallSite(p) ==
    CASE p = "test_xbegin_xend" -> "xb_check"
      [] p = "test_xabort" -> "xa_check"
      [] p = "test_xtest" -> "xt_check"
      [] OTHER -> "c_check"

\* `x86_xbegin() as _`, for the value eax the intrinsic returned.
xbegin_ret(eax) == AsU32(eax)

\* XBEGIN returning eax: the region is entered, or refused with a status.
x86_xbegin(eax, next) ==
    /\ ~active
    /\ eax \in XbeginResults
    /\ active' = (eax = -1)
    /\ wset' = EmptyWset
    /\ mem' = mem
    /\ pc' = next

\* An abort: the buffered writes and the locals set inside the region are
\* discarded and _xbegin returns once more, with the status eax.
x86_abort(eax) ==
    /\ active' = FALSE
    /\ wset' = EmptyWset
    /\ mem' = mem
    /\ pc' = CallSite(prog)
    /\ code' = Some(xbegin_ret(eax))
    /\ in_tx' = None

\* XEND: commit.  Outside a region the instruction faults.
x86_xend(next) ==
    /\ IF active
       THEN /\ mem' = Committed
            /\ pc' = next
       ELSE /\ mem' = mem
            /\ pc' = "fault"
    /\ active' = FALSE
    /\ wset' = EmptyWset
    /\ UNCHANGED <<code, in_tx>>

\* XABORT imm8: an explicit abort inside a region, a no-op outside.
x86_xabort(imm8, next) ==
    IF active
    THEN \E extras \in ExplicitExtras :
            x86_abort(x86_abort_status({"EXPLICIT"} \cup extras, imm8))
    ELSE /\ pc' = next
         /\ UNCHANGED <<active, mem, wset, code, in_tx>>

\* XTEST: 1 inside a region, 0 outside.
x86_xtest == IF active THEN 1 ELSE 0

\* constify_imm8!: dispatch on imm8 & 0xff to the literal 0..255.
constify_imm8(imm8) == ToNat(And(imm8, FromNat(255)))

(***************************************************************************)
(* The wrappers                                                            *)
(***************************************************************************)
\* pub unsafe fn _xbegin() -> u32, called as `let code = rtm::_xbegin();`
_xbegin(next) ==
    \E eax \in XbeginResults :
        /\ x86_xbegin(eax, next)
        /\ code' = Some(xbegin_ret(eax))
        /\ in_tx' = in_tx
        /\ ever_started' = (ever_started \/ eax = -1)

\* _xend bound to the xabort intrinsic.
_xend_as_xabort(next) == x86_xabort(0, next)

\* pub unsafe fn _xend()
_xend(next) == x86_xend(next)

\* _xabort bound to the xend intrinsic.
_xabort_as_xend(imm8, next) == x86_xend(next)

\* _xabort bound to the xbegin intrinsic, its result dropped.
_xabort_as_xbegin(imm8, next) ==
    \E eax \in XbeginResults :
        x86_xbegin(eax, next) /\ UNCHANGED <<code, in_tx>>

\* _xabort that never reaches the intrinsic.
_xabort_dropped(imm8, next) ==
    pc' = next /\ UNCHANGED <<active, mem, wset, code, in_tx>>

\* pub unsafe fn _xabort(imm8: u32)
_xabort(imm8, next) == x86_xabort(AsI8(constify_imm8(imm8)), next)

\* _xtest returning the zero flag XTEST sets, which is 1 outside a region.
_xtest_zf(r) == AsU8(1 - r)

\* pub unsafe fn _xtest() -> u8, for the value r the intrinsic returned.
_xtest(r) == AsU8(r)

(***************************************************************************)
(* The callers: the three tests of the file and a client that uses the     *)
(* four operations freely.  ev names the operation a step executed.        *)
(***************************************************************************)
xbegin_xend_attempts == 10

xabort_codes == 10

xtest_attempts == 10

AbortCodes == 0 .. 255

Progs == {"test_xbegin_xend", "test_xabort", "test_xtest", "client"}

Start(p) ==
    CASE p = "test_xbegin_xend" -> "xb_loop"
      [] p = "test_xabort" -> "xa_outside"
      [] p = "test_xtest" -> "xt_outside"
      [] OTHER -> "c_idle"

Init ==
    /\ prog \in Progs
    /\ pc = Start(prog)
    /\ i = 0
    /\ abort_code = 0
    /\ code = None
    /\ test_abort_code = None
    /\ in_tx = None
    /\ active = FALSE
    /\ mem = [a \in Addrs |-> 0]
    /\ wset = EmptyWset
    /\ seen = None
    /\ ev = "init"
    /\ ever_started = FALSE

\* A statement that touches neither the processor nor code and in_tx.
Plain == UNCHANGED <<code, in_tx, active, mem, wset>>

\* The locals a call of _xbegin leaves alone.
FrameX == UNCHANGED <<prog, i, abort_code, test_abort_code, seen>>

Frame == FrameX /\ UNCHANGED ever_started

(* ---- test_xbegin_xend ---- *)
xb_loop ==
    /\ pc = "xb_loop"
    /\ IF i < xbegin_xend_attempts
       THEN _xbegin("xb_check") /\ ev' = "xbegin"
       ELSE pc' = "done" /\ ev' = "step" /\ Plain /\ UNCHANGED ever_started
    /\ FrameX

xb_check ==
    /\ pc = "xb_check"
    /\ pc' = IF code = Some(_XBEGIN_STARTED) THEN "xb_inc" ELSE "xb_assert0"
    /\ ev' = "step"
    /\ Plain /\ Frame

xb_inc ==
    /\ pc = "xb_inc"
    /\ Store("x", Load("x") + 1)
    /\ pc' = "xb_end"
    /\ ev' = "step"
    /\ UNCHANGED <<code, in_tx, active>>
    /\ Frame

xb_end ==
    /\ pc = "xb_end"
    /\ _xend("xb_assert1")
    /\ ev' = "xend"
    /\ Frame

xb_assert1 ==
    /\ pc = "xb_assert1"
    /\ pc' = IF Load("x") = 1 THEN "done" ELSE "panic"
    /\ ev' = "step"
    /\ Plain /\ Frame

xb_assert0 ==
    /\ pc = "xb_assert0"
    /\ IF Load("x") = 0
       THEN pc' = "xb_loop" /\ i' = i + 1 /\ code' = None
       ELSE pc' = "panic" /\ UNCHANGED <<i, code>>
    /\ ev' = "step"
    /\ UNCHANGED <<prog, abort_code, test_abort_code, seen, in_tx, active, mem,
                   wset, ever_started>>

(* ---- test_xabort ---- *)
xa_outside ==
    /\ pc = "xa_outside"
    /\ _xabort(FromNat(0), "xa_loop")
    /\ ev' = "xabort"
    /\ Frame

xa_loop ==
    /\ pc = "xa_loop"
    /\ IF abort_code < xabort_codes
       THEN pc' = "xa_begin" /\ Store("x", 0)
       ELSE pc' = "done" /\ UNCHANGED <<mem, wset>>
    /\ ev' = "step"
    /\ UNCHANGED <<code, in_tx, active>>
    /\ Frame

xa_begin ==
    /\ pc = "xa_begin"
    /\ _xbegin("xa_check")
    /\ ev' = "xbegin"
    /\ FrameX

xa_check ==
    /\ pc = "xa_check"
    /\ pc' = IF code = Some(_XBEGIN_STARTED) THEN "xa_inc"
             ELSE IF And(code[1], _XABORT_EXPLICIT) # {} THEN "xa_decode"
             ELSE "xa_assert"
    /\ ev' = "step"
    /\ Plain /\ Frame

xa_inc ==
    /\ pc = "xa_inc"
    /\ Store("x", Load("x") + 1)
    /\ pc' = "xa_abort"
    /\ ev' = "step"
    /\ UNCHANGED <<code, in_tx, active>>
    /\ Frame

xa_abort ==
    /\ pc = "xa_abort"
    /\ _xabort(FromNat(abort_code), "xa_assert")
    /\ ev' = "xabort"
    /\ Frame

xa_decode ==
    /\ pc = "xa_decode"
    /\ test_abort_code' = Some(_xabort_code(code[1]))
    /\ pc' = IF test_abort_code'[1] = FromNat(abort_code) THEN "xa_assert" ELSE "panic"
    /\ ev' = "step"
    /\ Plain
    /\ UNCHANGED <<prog, i, abort_code, seen, ever_started>>

xa_assert ==
    /\ pc = "xa_assert"
    /\ IF Load("x") = 0
       THEN /\ pc' = "xa_loop"
            /\ abort_code' = abort_code + 1
            /\ code' = None
            /\ test_abort_code' = None
       ELSE /\ pc' = "panic"
            /\ UNCHANGED <<abort_code, code, test_abort_code>>
    /\ ev' = "step"
    /\ UNCHANGED <<prog, i, seen, in_tx, active, mem, wset, ever_started>>

(* ---- test_xtest ---- *)
xt_outside ==
    /\ pc = "xt_outside"
    /\ pc' = IF _xtest(x86_xtest) = 0 THEN "xt_loop" ELSE "panic"
    /\ ev' = "xtest"
    /\ Plain /\ Frame

xt_loop ==
    /\ pc = "xt_loop"
    /\ IF i < xtest_attempts
       THEN _xbegin("xt_check") /\ ev' = "xbegin"
       ELSE pc' = "done" /\ ev' = "step" /\ Plain /\ UNCHANGED ever_started
    /\ FrameX

xt_check ==
    /\ pc = "xt_check"
    /\ IF code = Some(_XBEGIN_STARTED)
       THEN pc' = "xt_test" /\ UNCHANGED <<i, code>>
       ELSE pc' = "xt_loop" /\ i' = i + 1 /\ code' = None
    /\ ev' = "step"
    /\ UNCHANGED <<prog, abort_code, test_abort_code, seen, in_tx, active, mem,
                   wset, ever_started>>

xt_test ==
    /\ pc = "xt_test"
    /\ in_tx' = Some(_xtest(x86_xtest))
    /\ pc' = "xt_end"
    /\ ev' = "xtest"
    /\ UNCHANGED <<code, active, mem, wset>>
    /\ Frame

xt_end ==
    /\ pc = "xt_end"
    /\ _xend("xt_assert")
    /\ ev' = "xend"
    /\ Frame

xt_assert ==
    /\ pc = "xt_assert"
    /\ pc' = IF in_tx = Some(1) THEN "done" ELSE "panic"
    /\ ev' = "step"
    /\ Plain /\ Frame

(* ---- a client of the four operations ---- *)
client_xbegin ==
    /\ pc = "c_idle"
    /\ _xbegin("c_check")
    /\ ev' = "xbegin"
    /\ FrameX

client_check ==
    /\ pc = "c_check"
    /\ IF code = Some(_XBEGIN_STARTED)
       THEN pc' = "c_region" /\ UNCHANGED <<code, abort_code>>
       ELSE pc' = "c_idle" /\ code' = None /\ abort_code' = 0
    /\ ev' = "step"
    /\ UNCHANGED <<prog, i, test_abort_code, seen, in_tx, active, mem, wset,
                   ever_started>>

client_store ==
    /\ pc = "c_region"
    /\ \E a \in Addrs, v \in Vals : Store(a, v)
    /\ ev' = "step"
    /\ UNCHANGED <<pc, code, in_tx, active>>
    /\ Frame

client_xend ==
    /\ pc = "c_region"
    /\ _xend("c_idle")
    /\ ev' = "xend"
    /\ Frame

client_xabort ==
    /\ pc \in {"c_idle", "c_region"}
    /\ \E c \in AbortCodes :
          /\ _xabort(FromNat(c), pc)
          /\ abort_code' = IF active THEN c ELSE abort_code
    /\ ev' = "xabort"
    /\ UNCHANGED <<prog, i, test_abort_code, seen, ever_started>>

(* ---- the processor and the other execution context ---- *)
\* A conflict, capacity, debug or nested abort, at any point of a region.
HwAbort ==
    /\ active
    /\ \E cs \in HwCauses : x86_abort(x86_abort_status(cs, 0))
    /\ ev' = "hwabort"
    /\ Frame

\* Another execution context reads an address.
Observe ==
    /\ \E a \in Addrs : seen' = [addr |-> a, val |-> mem[a]]
    /\ UNCHANGED <<prog, pc, i, abort_code, code, test_abort_code, in_tx,
                   active, mem, wset, ev, ever_started>>

Next ==
    \/ xb_loop \/ xb_check \/ xb_inc \/ xb_end \/ xb_assert1 \/ xb_assert0
    \/ xa_outside \/ xa_loop \/ xa_begin \/ xa_check \/ xa_inc \/ xa_abort
    \/ xa_decode \/ xa_assert
    \/ xt_outside \/ xt_loop \/ xt_check \/ xt_test \/ xt_end \/ xt_assert
    \/ client_xbegin \/ client_check \/ client_store \/ client_xend
    \/ client_xabort
    \/ HwAbort \/ Observe

Spec == Init /\ [][Next]_vars

\* The caller's own steps: the program runs as long as it has a statement.
Caller ==
    \/ xb_loop \/ xb_check \/ xb_inc \/ xb_end \/ xb_assert1 \/ xb_assert0
    \/ xa_outside \/ xa_loop \/ xa_begin \/ xa_check \/ xa_inc \/ xa_abort
    \/ xa_decode \/ xa_assert
    \/ xt_outside \/ xt_loop \/ xt_check \/ xt_test \/ xt_end \/ xt_assert
    \/ client_xbegin \/ client_check \/ client_store \/ client_xend
    \/ client_xabort

FairSpec == Init /\ [][Next]_vars /\ WF_vars(Caller)

(***************************************************************************)
(* The decoder and the constants on status words: every diagnostic code    *)
(* with every subset of the six flags, and the Started sentinel; the flip  *)
(* steps set and clear bits below 24.                                      *)
(***************************************************************************)
FlagBits == 0 .. 5

CodeBits == 24 .. 31

FlipBits == FlagBits \cup {6, 23}

DecodeInputs ==
    {_XBEGIN_STARTED}
        \cup {Shl(FromNat(c), 24) \cup low : c \in AbortCodes, low \in SUBSET FlagBits}

InitDecode ==
    /\ prog = "decode"
    /\ pc = "decode"
    /\ i = 0
    /\ abort_code = 0
    /\ code \in {Some(w) : w \in DecodeInputs}
    /\ test_abort_code = None
    /\ in_tx = None
    /\ active = FALSE
    /\ mem = [a \in Addrs |-> 0]
    /\ wset = EmptyWset
    /\ seen = None
    /\ ev = "init"
    /\ ever_started = FALSE

DecodeFrame ==
    UNCHANGED <<prog, pc, i, abort_code, in_tx, active, mem, wset, seen,
                ever_started>>

decode ==
    /\ test_abort_code' = Some(_xabort_code(code[1]))
    /\ ev' = "decode"
    /\ UNCHANGED code
    /\ DecodeFrame

flip ==
    /\ \E b \in FlipBits :
          code' = Some(IF b \in code[1] THEN code[1] \ {b} ELSE code[1] \cup {b})
    /\ ev' = "flip"
    /\ UNCHANGED test_abort_code
    /\ DecodeFrame

NextDecode == decode \/ flip

SpecDecode == InitDecode /\ [][NextDecode]_vars

(***************************************************************************)
(* Properties                                                              *)
(***************************************************************************)
Started == Some(_XBEGIN_STARTED)

\* The status at the call site is an abort status with flag f set.
HasFlag(f) == code # None /\ code # Started /\ And(code[1], f) # {}

\* The numeric value of bits 24..31 of w: (w div 2^24) mod 256.
Hi8(w) == SumBits({b - 24 : b \in w \cap CodeBits})

\* The caller stands strictly between an _xbegin that returned Started and
\* the matching _xend.
InRegion ==
    \/ pc \in {"xb_inc", "xb_end", "xa_inc", "xa_abort", "xt_test", "xt_end",
               "c_region"}
    \/ pc = CallSite(prog) /\ code = Started

Aborts == {"xabort", "hwabort"}

\* C1: when a region entered by _xbegin is aborted by _xabort(c), c in 0..255,
\* and the status surfaced at the _xbegin call site has EXPLICIT set, then
\* _xabort_code(status) is exactly c; test_xabort's decoded code equals its
\* abort_code.
C1_AbortCodeRoundTrip ==
    /\ (ev = "xabort" /\ pc = CallSite(prog) /\ HasFlag(_XABORT_EXPLICIT))
          => /\ _xabort_code(code[1]) = FromNat(abort_code)
             /\ ToNat(_xabort_code(code[1])) = abort_code
    /\ pc = "xa_decode" => _xabort_code(code[1]) = FromNat(abort_code)
    /\ test_abort_code # None => test_abort_code[1] = FromNat(abort_code)

\* A code that does not fit an i8 has come back at the client's call site.
C1_Witness ==
    /\ prog = "client" /\ ev = "xabort" /\ pc = "c_check"
    /\ HasFlag(_XABORT_EXPLICIT)
    /\ abort_code = 200

\* C2: _xabort(c) called while no region is active is a no-op: the state stays
\* Idle, memory, the write buffer and the status at the call site are
\* unchanged, and the caller goes on with the statement after the call.
C2_AbortOutsideIsNoOp ==
    [][(~active /\ ev' = "xabort")
          => /\ ~active'
             /\ mem' = mem
             /\ wset' = wset
             /\ code' = code
             /\ in_tx' = in_tx
             /\ pc' = (IF pc = "xa_outside" THEN "xa_loop" ELSE pc)]_vars

\* test_xabort has passed its `_xabort(0)` outside any region.
C2_Witness ==
    /\ prog = "test_xabort" /\ pc = "xa_loop" /\ ev = "xabort"
    /\ ~active /\ code = None /\ mem["x"] = 0

\* C3: in every reachable state _xtest returns 1 exactly when the caller is
\* inside a region and 0 when it is Idle; the value test_xtest read inside its
\* region is 1 and the one it read outside was 0; _xtest changes neither the
\* region state nor memory.
C3_XtestTellsState ==
    /\ [](/\ _xtest(x86_xtest) = (IF InRegion THEN 1 ELSE 0)
          /\ active <=> InRegion
          /\ in_tx # None => in_tx = Some(1)
          /\ prog = "test_xtest" => pc # "panic")
    /\ [][ev' = "xtest" /\ ev # "xtest"
              => UNCHANGED <<active, mem, wset, code>>]_vars

\* test_xtest has read _xtest inside its region and committed.
C3_Witness == pc = "xt_assert" /\ in_tx = Some(1) /\ ~active

\* C4 as stated: no abort flag tests as set on _XBEGIN_STARTED, and no status
\* built from abort flags and a diagnostic code equals _XBEGIN_STARTED.
C4_AsStated ==
    /\ code = Started => \A f \in AbortFlags : And(code[1], f) = {}
    /\ (code # None /\ code[1] \subseteq (UNION AbortFlags) \cup CodeBits)
          => code # Started

\* C4, amended: no status built from a subset of the abort flags and an 8-bit
\* diagnostic code equals _XBEGIN_STARTED; _XBEGIN_STARTED has every flag bit
\* set, so a status is compared with it before any flag is tested.
C4_StartedIsNoAbortStatus ==
    /\ (code # None /\ code[1] \subseteq (UNION AbortFlags) \cup CodeBits)
          => code # Started
    /\ code = Started => \A f \in AbortFlags : And(code[1], f) = f

\* The abort status nearest to the sentinel: all six flags and code 255.
C4_Witness == code = Some((UNION AbortFlags) \cup CodeBits)

\* C5: the writes of a region are invisible to other contexts while it is
\* open, all reach memory together at _xend, and none does when the region
\* aborts, whatever the cause.
C5_AllOrNothing ==
    [][/\ (active /\ active') => mem' = mem
       /\ (active /\ mem' # mem) => (ev' = "xend" /\ ~active')
       /\ (active /\ ev' = "xend")
             => mem' = [a \in Addrs |-> IF a \in DOMAIN wset THEN wset[a]
                                                   ELSE mem[a]]
       /\ (active /\ ev' \in Aborts)
             => (mem' = mem /\ ~active' /\ wset' = EmptyWset)
       /\ seen' # seen => seen'.val = mem[seen'.addr]]_vars

\* A region that wrote both addresses has committed.
C5_Witness ==
    /\ prog = "client" /\ ev = "xend" /\ ~active
    /\ mem = [a \in Addrs |-> 1]

\* C6: the counter is 1 after Started, the increment and _xend; it is 0 after
\* every _xbegin whose status is not Started, the one surfaced after _xabort
\* followed the increment included; no assertion of the two tests fails.
C6_CounterCommittedOrRolledBack ==
    prog \in {"test_xbegin_xend", "test_xabort"}
        => /\ pc = "xb_assert1" => (mem["x"] = 1 /\ Load("x") = 1)
           /\ (pc = CallSite(prog) /\ code # None /\ code # Started)
                 => (mem["x"] = 0 /\ Load("x") = 0)
           /\ pc \in {"xb_assert0", "xa_decode", "xa_assert"} => Load("x") = 0
           /\ pc # "panic"

\* test_xabort is back at its _xbegin after incrementing and aborting.
C6_Witness ==
    /\ prog = "test_xabort" /\ pc = "xa_check" /\ ev = "xabort"
    /\ HasFlag(_XABORT_EXPLICIT) /\ mem["x"] = 0 /\ abort_code = 5

\* C7: Idle is initial; Idle becomes Active only when _xbegin returns Started;
\* Active becomes Idle only by _xend, after which the caller goes on, or by
\* _xabort or a hardware abort, after which the caller is at the _xbegin call
\* site with a status that is not Started (EXPLICIT set after _xabort); an
\* _xbegin that returns another status leaves the state Idle.
C7_RegionTransitions ==
    /\ ~active
    /\ [][/\ (~active /\ active') => (ev' = "xbegin" /\ code' = Started)
          /\ (active /\ ~active')
                => \/ ev' = "xend" /\ pc' # CallSite(prog) /\ pc' # "fault"
                   \/ /\ ev' \in Aborts
                      /\ pc' = CallSite(prog)
                      /\ code' # None /\ code' # Started
                      /\ ev' = "xabort" => And(code'[1], _XABORT_EXPLICIT) # {}
          /\ (ev' = "xbegin" /\ code' # Started) => ~active'
          /\ (ev' = "xbegin" /\ code' = Started) => active']_vars

\* A hardware abort has brought the client back to its call site.
C7_Witness ==
    /\ prog = "client" /\ ev = "hwabort" /\ pc = "c_check" /\ ~active
    /\ HasFlag(_XABORT_CONFLICT) /\ ~HasFlag(_XABORT_EXPLICIT)

\* C8: the constants have the hardware's bit positions: the six flags are the
\* single bits 0..5, pairwise disjoint, each flag test reads the cause's bit of
\* the status, and _XBEGIN_STARTED has all 32 bits set.
C8_ConstantsMatchHardware ==
    /\ ToNat(_XABORT_EXPLICIT) = 2^0
    /\ ToNat(_XABORT_RETRY) = 2^1
    /\ ToNat(_XABORT_CONFLICT) = 2^2
    /\ ToNat(_XABORT_CAPACITY) = 2^3
    /\ ToNat(_XABORT_DEBUG) = 2^4
    /\ ToNat(_XABORT_NESTED) = 2^5
    /\ _XBEGIN_STARTED = 0 .. 31
    /\ Cardinality(AbortFlags) = 6
    /\ \A f \in AbortFlags : Cardinality(f) = 1
    /\ \A f, g \in AbortFlags : f # g => And(f, g) = {}
    /\ code # None =>
          /\ And(code[1], _XABORT_EXPLICIT) # {} <=> AbortCauseBit.EXPLICIT \in code[1]
          /\ And(code[1], _XABORT_RETRY) # {} <=> AbortCauseBit.RETRY \in code[1]
          /\ And(code[1], _XABORT_CONFLICT) # {} <=> AbortCauseBit.CONFLICT \in code[1]
          /\ And(code[1], _XABORT_CAPACITY) # {} <=> AbortCauseBit.CAPACITY \in code[1]
          /\ And(code[1], _XABORT_DEBUG) # {} <=> AbortCauseBit.DEBUG \in code[1]
          /\ And(code[1], _XABORT_NESTED) # {} <=> AbortCauseBit.NESTED \in code[1]

\* A status with NESTED and CONFLICT set, and bit 6 set beside them.
C8_Witness ==
    /\ prog = "decode"
    /\ code[1] \cap (0 .. 6) = {2, 5, 6}

EventuallyStarted == <>ever_started

\* C10: _xabort_code is defined on every status word and returns
\* (status div 2^24) mod 256, a value in 0..255 read from bits 24..31 alone:
\* a result computed before bits below 24 were set or cleared is still the
\* result for the changed word.
C10_CodeIsTopByte ==
    /\ ToNat(_xabort_code(code[1])) = Hi8(code[1])
    /\ ToNat(_xabort_code(code[1])) \in 0 .. 255
    /\ test_abort_code # None
          => /\ test_abort_code[1] = _xabort_code(code[1])
             /\ ToNat(test_abort_code[1]) = Hi8(code[1])

\* A code above 127 decoded, then flags and bit 23 changed under it.
C10_Witness ==
    /\ test_abort_code = Some(FromNat(200))
    /\ ev = "flip"
    /\ code[1] \cap (0 .. 23) = {1, 3, 23}

====
